---- MODULE Spec2Model ----
\* Fork tree, flat state, overlay and transactional wrapper of the
\* `blockchain` crate, modelled from src/blockchain.
EXTENDS Integers, Sequences, FiniteSets, TLC

VARIABLES
    tree,      \* a MemoryForkTree used directly (blocks, depths)
    call,      \* the last call made on `tree`: its argument, result and pre-state
    first,     \* MemoryTransactional: the exposed replica of ChainData
    second,    \* MemoryTransactional: the recovery shadow
    txcall,    \* the last call made on the chain, and what it returned
    fs,        \* a MemoryFlatState used directly, over `tree`
    scall,     \* the last call made on `tree`, `fs` or an overlay of them
    overlays,  \* the OverlayedFlatState values that borrow `fs` and `tree`
    net        \* the libp2p worker, its action channel and its listeners' channels

vars == <<tree, call, first, second, txcall, fs, scall, overlays, net>>

----------------------------------------------------------------------------
\* Bounds of the model.

\* Block identifiers are 1..NumIds.
NumIds == 5

\* Longest children list a node may reach (a failed insert below a stored
\* parent still appends to the parent's children, so the list is unbounded).
MaxChildren == 2

\* The chain behind the transactional wrapper has at most NumRoots roots.
NumRoots == 2

\* Block identifiers of the tree below a flat state are 1..NumStateIds.
NumStateIds == 4

----------------------------------------------------------------------------
\* Values.

\* Option::None, for Option<Identifier> and Option<Value>.
None == 0

Ids == 1..NumIds

Seals == {"ValidSeal", "InvalidSeal"}

\* Keys and values of the flat state (u32 in tests/simple.rs).
Keys == {100, 200}

Values == {1, 2}

\* Extrinsic::Set(key, value)
Extrinsics == [key : Keys, value : Values]

\* The extrinsic lists blocks are built with.
ExtrinsicLists ==
    {<<>>, <<[key |-> 100, value |-> 1], [key |-> 100, value |-> 2]>>}

\* tests/simple.rs Block. An identifier is unique to its block (block.rs:4),
\* and a block is built on a parent that was built before it, so a block's
\* declared parent has a smaller identifier than the block.
Block(id, parent_id, seal, extrinsics) ==
    [id |-> id, parent_id |-> parent_id, seal |-> seal, extrinsics |-> extrinsics]

ParentsOf(id) == {None} \cup {p \in Ids : p < id}

\* Blocks handed to a bare fork tree: the fork tree reads id and parent_id only.
TreeBlocks ==
    UNION {{Block(id, p, "ValidSeal", <<>>) : p \in ParentsOf(id)} : id \in Ids}

----------------------------------------------------------------------------
\* Results.

\* Result<T, MemoryForkTreeQueryError>
QOk(v) == [ok |-> TRUE, val |-> v, err |-> "None"]

QErr(e) == [ok |-> FALSE, val |-> None, err |-> e]

\* Result<(), MemoryForkTreeInsertError>; query is the wrapped query error.
IOk == [ok |-> TRUE, err |-> "None", query |-> "None"]

IErr(e, q) == [ok |-> FALSE, err |-> e, query |-> q]

----------------------------------------------------------------------------
\* MemoryForkTree (memory/mod.rs).

MemoryForkTree_new == [blocks |-> <<>>, depths |-> <<>>]

MemoryForkTreeItem(block, depth, children, ancestors) ==
    [block |-> block, depth |-> depth, children |-> children, ancestors |-> ancestors]

block(t, id) ==
    IF id \in DOMAIN t.blocks THEN QOk(t.blocks[id].block) ELSE QErr("UnknownBlock")

block_depth(t, id) ==
    IF id \in DOMAIN t.blocks THEN QOk(t.blocks[id].depth) ELSE QErr("UnknownBlock")

\* The reduce of mod.rs:101-107 over the pairs (depth, id) of `pairs`, folded
\* from the left: a later pair replaces the accumulator only when its depth is
\* strictly smaller.
RECURSIVE ReduceMin(_, _)
ReduceMin(acc, pairs) ==
    IF pairs = <<>> THEN acc
    ELSE ReduceMin(IF Head(pairs)[1] < acc[1] THEN Head(pairs) ELSE acc, Tail(pairs))

\* mod.rs:93-109: the next hop from `item` towards `ancestor_depth`.
next_ancestor_id(item, ancestor_depth) ==
    LET candidates == SelectSeq(item.ancestors, LAMBDA p : p[1] >= ancestor_depth)
    IN  IF candidates = <<>> THEN item.block.parent_id
        ELSE ReduceMin(Head(candidates), Tail(candidates))[2]

\* The loop of mod.rs:77-115, from the block `cur`.
RECURSIVE ancestor_loop(_, _, _)
ancestor_loop(t, cur, ancestor_depth) ==
    LET current_block == t.blocks[cur]
    IN  IF current_block.depth < ancestor_depth THEN QErr("InvalidAncestorDepth")
        ELSE IF current_block.depth = ancestor_depth THEN QOk(current_block.block.id)
        ELSE IF current_block.block.parent_id = None THEN QErr("InvalidAncestorDepth")
        ELSE LET next == next_ancestor_id(current_block, ancestor_depth)
             IN  IF next \notin DOMAIN t.blocks THEN QErr("UnknownBlock")
                 ELSE ancestor_loop(t, next, ancestor_depth)

\* mod.rs:73: the depth check made before the loop.
ancestor_depth_rejected(depth, ancestor_depth) == depth >= ancestor_depth

ancestor_id_at_depth(t, id, ancestor_depth) ==
    IF id \notin DOMAIN t.blocks THEN QErr("UnknownBlock")
    ELSE IF ancestor_depth_rejected(t.blocks[id].depth, ancestor_depth)
         THEN QErr("InvalidAncestorDepth")
    ELSE ancestor_loop(t, id, ancestor_depth)

\* The blocks the loop of mod.rs:77-115 visits from the block `cur`, in order:
\* every iteration looks up one block, and ends the call or moves to the next.
RECURSIVE ancestor_loop_visits(_, _, _)
ancestor_loop_visits(t, cur, ancestor_depth) ==
    LET current_block == t.blocks[cur]
    IN  IF \/ current_block.depth <= ancestor_depth
           \/ current_block.block.parent_id = None
        THEN <<cur>>
        ELSE LET next == next_ancestor_id(current_block, ancestor_depth)
             IN  IF next \notin DOMAIN t.blocks THEN <<cur>>
                 ELSE <<cur>> \o ancestor_loop_visits(t, next, ancestor_depth)

\* The blocks one call of ancestor_id_at_depth visits in its loop: none when
\* the call returns before the loop (mod.rs:69-75).
ancestor_id_at_depth_visits(t, id, ancestor_depth) ==
    IF id \notin DOMAIN t.blocks THEN <<>>
    ELSE IF ancestor_depth_rejected(t.blocks[id].depth, ancestor_depth) THEN <<>>
    ELSE ancestor_loop_visits(t, id, ancestor_depth)

\* is_ancestor that compares depths only: every block at the ancestor's depth
\* or deeper is taken for a descendant.
is_ancestor_by_depth(t, id, ancestor_id) ==
    LET ancestor_depth == block_depth(t, ancestor_id)
        depth == block_depth(t, id)
    IN  IF ~ancestor_depth.ok THEN QErr(ancestor_depth.err)
        ELSE IF ~depth.ok THEN QErr(depth.err)
        ELSE QOk(depth.val >= ancestor_depth.val)

\* chain.rs:41-49, the default method of the ForkTree trait.
is_ancestor(t, id, ancestor_id) ==
    LET ancestor_depth == block_depth(t, ancestor_id)
    IN  IF ~ancestor_depth.ok THEN QErr(ancestor_depth.err)
        ELSE LET found == ancestor_id_at_depth(t, id, ancestor_depth.val)
             IN  IF ~found.ok THEN QErr(found.err)
                 ELSE QOk(found.val = ancestor_id)

\* SKIP_DEPTHS holds 4^1 .. 4^16; a magnitude is kept as its exponent, and
\* compared with a depth by repeated division, so that 4^16 is never computed.
NumSkipDepths == 16

SKIP_DEPTHS == [i \in 1..NumSkipDepths |-> i]

\* depth >= 4^e
RECURSIVE GeqPow4(_, _)
GeqPow4(depth, e) == IF e = 0 THEN depth >= 1 ELSE GeqPow4(depth \div 4, e - 1)

\* depth % 4^e == 0
RECURSIVE DivisibleByPow4(_, _)
DivisibleByPow4(depth, e) ==
    IF e = 0 THEN TRUE ELSE depth % 4 = 0 /\ DivisibleByPow4(depth \div 4, e - 1)

\* Iterator::unique: the first occurrence of each element, in order.
RECURSIVE Unique(_)
Unique(s) ==
    IF s = <<>> THEN <<>>
    ELSE LET rest == Unique(SelectSeq(Tail(s), LAMBDA x : x # Head(s)))
         IN  <<Head(s)>> \o rest

\* mod.rs:174-178
ancestor_depths(depth) ==
    LET kept == SelectSeq(SKIP_DEPTHS,
                    LAMBDA e : GeqPow4(depth, e) /\ DivisibleByPow4(depth, e))
    IN  Unique([i \in 1..Len(kept) |-> depth - 4^(kept[i])])

\* insert_parent with an unknown parent taken for "no parent": the block is
\* accepted as a root.
insert_parent_orphan_as_root(t, b) ==
    IF b.parent_id # None /\ b.parent_id \in DOMAIN t.blocks
    THEN [ok |-> TRUE,
          depth |-> t.blocks[b.parent_id].depth + 1,
          ft |-> [t EXCEPT !.blocks[b.parent_id].children = Append(@, b.id)]]
    ELSE [ok |-> TRUE, depth |-> 0, ft |-> t]

\* insert_parent that accepts a block without parent only in an empty tree.
insert_parent_single_root(t, b) ==
    IF b.parent_id # None
    THEN IF b.parent_id \in DOMAIN t.blocks
         THEN [ok |-> TRUE,
               depth |-> t.blocks[b.parent_id].depth + 1,
               ft |-> [t EXCEPT !.blocks[b.parent_id].children = Append(@, b.id)]]
         ELSE [ok |-> FALSE, depth |-> 0, ft |-> t]
    ELSE [ok |-> DOMAIN t.blocks = {}, depth |-> 0, ft |-> t]

\* insert_parent that gives a child its parent's depth.
insert_parent_same_depth(t, b) ==
    IF b.parent_id # None
    THEN IF b.parent_id \in DOMAIN t.blocks
         THEN [ok |-> TRUE,
               depth |-> t.blocks[b.parent_id].depth,
               ft |-> [t EXCEPT !.blocks[b.parent_id].children = Append(@, b.id)]]
         ELSE [ok |-> FALSE, depth |-> 0, ft |-> t]
    ELSE [ok |-> TRUE, depth |-> 0, ft |-> t]

\* insert_parent that also resets the depth recorded for the parent.
insert_parent_resets_parent(t, b) ==
    IF b.parent_id # None
    THEN IF b.parent_id \in DOMAIN t.blocks
         THEN [ok |-> TRUE,
               depth |-> t.blocks[b.parent_id].depth + 1,
               ft |-> [t EXCEPT !.blocks[b.parent_id].children = Append(@, b.id),
                                !.blocks[b.parent_id].depth = 0]]
         ELSE [ok |-> FALSE, depth |-> 0, ft |-> t]
    ELSE [ok |-> TRUE, depth |-> 0, ft |-> t]

\* mod.rs:159-168: the parent lookup. The child is appended to the parent's
\* children before anything else is checked.
insert_parent(t, b) ==
    IF b.parent_id # None
    THEN IF b.parent_id \in DOMAIN t.blocks
         THEN [ok |-> TRUE,
               depth |-> t.blocks[b.parent_id].depth + 1,
               ft |-> [t EXCEPT !.blocks[b.parent_id].children = Append(@, b.id)]]
         ELSE [ok |-> FALSE, depth |-> 0, ft |-> t]
    ELSE [ok |-> TRUE, depth |-> 0, ft |-> t]

\* mod.rs:170-191: the skip list of the new block, or the first query error.
insert_ancestors(t, b, depth) ==
    IF b.parent_id # None
    THEN LET depths == ancestor_depths(depth)
             found == [i \in 1..Len(depths) |->
                          ancestor_id_at_depth(t, b.parent_id, depths[i])]
             failed == {i \in 1..Len(depths) : ~found[i].ok}
         IN  IF failed # {}
             THEN QErr(found[CHOOSE i \in failed : \A j \in failed : i <= j].err)
             ELSE QOk([i \in 1..Len(depths) |-> <<depths[i], found[i].val>>])
    ELSE QOk(<<>>)

\* insert_store that records the depth of the block and not the block.
insert_store_depths_only(t, b, depth, ancestors) ==
    [blocks |-> t.blocks,
     depths |-> (depth :> Append(IF depth \in DOMAIN t.depths
                                 THEN t.depths[depth] ELSE <<>>, b.id))
                @@ t.depths]

\* mod.rs:193-202
insert_store(t, b, depth, ancestors) ==
    [blocks |-> (b.id :> MemoryForkTreeItem(b, depth, <<>>, ancestors)) @@ t.blocks,
     depths |-> (depth :> Append(IF depth \in DOMAIN t.depths
                                 THEN t.depths[depth] ELSE <<>>, b.id))
                @@ t.depths]

\* mod.rs:184-204: `?` on the skip list, then the block is stored.
insert_finish(parent, b, ancestors) ==
    IF ~ancestors.ok
    THEN [ft |-> parent.ft, result |-> IErr("Query", ancestors.err)]
    ELSE [ft |-> insert_store(parent.ft, b, parent.depth, ancestors.val), result |-> IOk]

\* mod.rs:163: `?` on the parent lookup.
insert_checked(parent, b) ==
    IF ~parent.ok
    THEN [ft |-> parent.ft, result |-> IErr("UnknownParent", "None")]
    ELSE insert_finish(parent, b, insert_ancestors(parent.ft, b, parent.depth))

\* MemoryForkTree::insert: the tree after the call and the result.
insert(t, b) == insert_checked(insert_parent(t, b), b)

----------------------------------------------------------------------------
\* The fork tree used directly.

NoCall == [op |-> "none", block |-> Block(1, None, "ValidSeal", <<>>),
           result |-> IOk, pre |-> MemoryForkTree_new]

\* The caller's side of insert: the identifier is not stored yet (block.rs:4),
\* and the parent's children list has room.
InsertAllowed(t, b) ==
    /\ b.id \notin DOMAIN t.blocks
    /\ b.parent_id \in DOMAIN t.blocks => Len(t.blocks[b.parent_id].children) < MaxChildren

Insert(b) ==
    /\ InsertAllowed(tree, b)
    /\ LET r == insert(tree, b)
       IN  /\ tree' = r.ft
           /\ call' = [op |-> "insert", block |-> b, result |-> r.result, pre |-> tree]
    /\ UNCHANGED <<first, second, txcall, fs, scall, overlays, net>>

TreeInit ==
    /\ tree = MemoryForkTree_new
    /\ call = NoCall

----------------------------------------------------------------------------
\* MemoryFlatState (memory/state.rs) and OverlayedFlatState (state.rs).

\* state: key -> depth -> block id -> optional value
MemoryFlatState_new == <<>>

\* apply_pair that takes a removal for the removal of the entry.
apply_pair_removes_on_none(state, pair, depth, block_id) ==
    LET key == pair[1]
        by_depth == IF key \in DOMAIN state THEN state[key] ELSE <<>>
        by_id == IF depth \in DOMAIN by_depth THEN by_depth[depth] ELSE <<>>
        kept == [id \in DOMAIN by_id \ {block_id} |-> by_id[id]]
    IN  IF pair[2] = None
        THEN (key :> ((depth :> kept) @@ by_depth)) @@ state
        ELSE (key :> ((depth :> ((block_id :> pair[2]) @@ by_id)) @@ by_depth)) @@ state

\* state.rs (memory) 83-90: one pair of the changeset recorded at (depth, block_id).
apply_pair(state, pair, depth, block_id) ==
    LET key == pair[1]
        by_depth == IF key \in DOMAIN state THEN state[key] ELSE <<>>
        by_id == IF depth \in DOMAIN by_depth THEN by_depth[depth] ELSE <<>>
    IN  (key :> ((depth :> ((block_id :> pair[2]) @@ by_id)) @@ by_depth)) @@ state

RECURSIVE apply_pairs(_, _, _, _)
apply_pairs(state, changeset, depth, block_id) ==
    IF changeset = <<>> THEN state
    ELSE apply_pairs(apply_pair(state, Head(changeset), depth, block_id),
                     Tail(changeset), depth, block_id)

\* apply that takes an unknown block for a block at depth 0.
FlatState_apply_unknown_at_root(state, changeset, block_id, ft) ==
    LET depth == block_depth(ft, block_id)
    IN  IF ~depth.ok
        THEN [state |-> apply_pairs(state, changeset, 0, block_id),
              result |-> QErr(depth.err)]
        ELSE [state |-> apply_pairs(state, changeset, depth.val, block_id),
              result |-> QOk(None)]

\* MemoryFlatState::apply: the state after the call and the result.
FlatState_apply(state, changeset, block_id, ft) ==
    LET depth == block_depth(ft, block_id)
    IN  IF ~depth.ok THEN [state |-> state, result |-> QErr(depth.err)]
        ELSE [state |-> apply_pairs(state, changeset, depth.val, block_id),
              result |-> QOk(None)]

\* memory/state.rs:50-57: what the scan of the writers of one depth can end
\* the call with. The writers are the keys of a HashMap, visited in an
\* unspecified order; the first writer for which is_ancestor fails (`?`) or
\* answers true ends the call, and every such writer comes first in some order.
get_at_depth(by_id, block_id, ft) ==
    LET ends == {w \in DOMAIN by_id :
                    LET is == is_ancestor(ft, block_id, w)
                    IN  ~is.ok \/ is.val = TRUE}
    IN  {LET is == is_ancestor(ft, block_id, w)
         IN  IF ~is.ok THEN QErr(is.err) ELSE QOk(by_id[w]) : w \in ends}

\* memory/state.rs:46-58: the depths not above the block's, deepest first.
RECURSIVE get_scan(_, _, _, _)
get_scan(by_depth, depths, block_id, ft) ==
    IF depths = {} THEN {QOk(None)}
    ELSE LET d == CHOOSE x \in depths : \A y \in depths : y <= x
             ended == get_at_depth(by_depth[d], block_id, ft)
         IN  IF ended # {} THEN ended
             ELSE get_scan(by_depth, depths \ {d}, block_id, ft)

\* MemoryFlatState::get: the set of results the call can return (one result
\* per order of iteration). The block's depth is asked only when the key has
\* an entry.
FlatState_get(state, key, block_id, ft) ==
    IF key \notin DOMAIN state THEN {QOk(None)}
    ELSE LET depth == block_depth(ft, block_id)
         IN  IF ~depth.ok THEN {QErr(depth.err)}
             ELSE get_scan(state[key],
                           {d \in DOMAIN state[key] : d <= depth.val},
                           block_id, ft)

\* FlatState::overlayed: the overlay's own fields (it borrows the flat state
\* and the fork tree).
overlayed(block_id) == [block_id |-> block_id, changeset |-> <<>>]

Overlay_insert(overlay, key, value) ==
    [overlay EXCEPT !.changeset = (key :> value) @@ @]

\* remove that forgets the overlay's own write of the key, so that the key
\* reads from the flat state again.
Overlay_remove_forgets(overlay, key) ==
    [overlay EXCEPT !.changeset = [k \in DOMAIN @ \ {key} |-> @[k]]]

Overlay_remove(overlay, key) ==
    [overlay EXCEPT !.changeset = (key :> None) @@ @]

\* OverlayedFlatState::get: the buffered value, else the flat state's answer
\* at the parent block.
Overlay_get(overlay, key, state, ft) ==
    IF key \in DOMAIN overlay.changeset THEN {QOk(overlay.changeset[key])}
    ELSE FlatState_get(state, key, overlay.block_id, ft)

\* into_changeset: the pairs of the HashMap. Keys are distinct, so the order
\* of iteration does not change what apply records; pairs come by ascending key.
RECURSIVE PairsOf(_, _)
PairsOf(changeset, keys) ==
    IF keys = {} THEN <<>>
    ELSE LET k == CHOOSE x \in keys : \A y \in keys : x <= y
         IN  <<<<k, changeset[k]>>>> \o PairsOf(changeset, keys \ {k})

\* into_changeset that yields the inserted values only.
into_changeset_without_removals(overlay) ==
    SelectSeq(PairsOf(overlay.changeset, DOMAIN overlay.changeset),
              LAMBDA pair : pair[2] # None)

into_changeset(overlay) == PairsOf(overlay.changeset, DOMAIN overlay.changeset)

----------------------------------------------------------------------------
\* The chain of tests/simple.rs: ChainData and the closures given to apply.

ChainData(fork_tree, state) == [fork_tree |-> fork_tree, state |-> state]

\* Result<(), ChainError>
COk == [ok |-> TRUE, err |-> "None", insert |-> "None", query |-> "None"]

CErr(e, i, q) == [ok |-> FALSE, err |-> e, insert |-> i, query |-> q]

\* From<MemoryForkTreeInsertError> for ChainError
FromInsertError(r) == CErr("ForkTreeInsert", r.err, r.query)

\* From<MemoryForkTreeQueryError> for ChainError
FromQueryError(r) == CErr("ForkTreeQuery", "None", r.err)

\* simple.rs:133-139: the extrinsics replayed on the overlay.
RECURSIVE replay(_, _)
replay(overlay, extrinsics) ==
    IF extrinsics = <<>> THEN overlay
    ELSE replay(Overlay_insert(overlay, Head(extrinsics).key, Head(extrinsics).value),
                Tail(extrinsics))

\* simple.rs:142-144 and 243-245: `?` on the flat state's apply, then Ok(()).
closure_applied(ft, applied) ==
    IF ~applied.result.ok
    THEN [data |-> ChainData(ft, applied.state), result |-> FromQueryError(applied.result)]
    ELSE [data |-> ChainData(ft, applied.state), result |-> COk]

\* simple.rs:130-144: `?` on the insert, then the overlay at the parent, the
\* extrinsics and the changeset applied at the new block.
import_inserted(data, b, inserted) ==
    IF ~inserted.result.ok
    THEN [data |-> ChainData(inserted.ft, data.state),
          result |-> FromInsertError(inserted.result)]
    ELSE closure_applied(inserted.ft,
             FlatState_apply(data.state,
                             into_changeset(replay(overlayed(b.parent_id), b.extrinsics)),
                             b.id, inserted.ft))

\* simple.rs:127-145: the closure of Chain::import, run on `data`. The data it
\* leaves behind holds every mutation made before an error.
import_closure(data, b) ==
    IF b.parent_id = None
    THEN [data |-> data, result |-> CErr("CantImportGenesis", "None", "None")]
    ELSE import_inserted(data, b, insert(data.fork_tree, b))

\* The genesis closure without its second step: the block is inserted and the
\* genesis state is not applied.
genesis_inserted_without_state(data, b, genesis_state, inserted) ==
    IF ~inserted.result.ok
    THEN [data |-> ChainData(inserted.ft, data.state),
          result |-> FromInsertError(inserted.result)]
    ELSE [data |-> ChainData(inserted.ft, data.state), result |-> COk]

\* simple.rs:237-245: `?` on the insert, then the genesis state applied.
genesis_inserted(data, b, genesis_state, inserted) ==
    IF ~inserted.result.ok
    THEN [data |-> ChainData(inserted.ft, data.state),
          result |-> FromInsertError(inserted.result)]
    ELSE closure_applied(inserted.ft,
             FlatState_apply(data.state, genesis_state, b.id, inserted.ft))

\* simple.rs:236-246: the closure that imports the genesis block and state.
genesis_closure(data, b, genesis_state) ==
    genesis_inserted(data, b, genesis_state, insert(data.fork_tree, b))

\* The changeset a closure with a side effect records once the side effect
\* has succeeded.
SideEffectState == <<<<200, 1>>>>

side_effect_inserted(data, b, inserted, side_effect_ok) ==
    IF ~inserted.result.ok
    THEN [data |-> ChainData(inserted.ft, data.state),
          result |-> FromInsertError(inserted.result)]
    ELSE IF ~side_effect_ok
         THEN [data |-> ChainData(inserted.ft, data.state),
               result |-> CErr("SideEffect", "None", "None")]
         ELSE closure_applied(inserted.ft,
                  FlatState_apply(data.state, SideEffectState, b.id, inserted.ft))

\* A closure that inserts a block, performs a side effect outside the state,
\* which succeeds or fails on its own account, and then records a changeset at
\* the block: `side_effect_ok` is the outcome the side effect has in this run.
side_effect_closure(data, b, side_effect_ok) ==
    side_effect_inserted(data, b, insert(data.fork_tree, b), side_effect_ok)

\* A closure value: what it captures. outcomes[i] is the outcome of the side
\* effect in the closure's i-th run.
Closure(kind, b, genesis_state, outcomes) ==
    [kind |-> kind, block |-> b, genesis_state |-> genesis_state, outcomes |-> outcomes]

\* The closure `c` called on `data`, as its `run`-th call.
RunClosure(c, data, run) ==
    CASE c.kind = "import" -> import_closure(data, c.block)
      [] c.kind = "genesis" -> genesis_closure(data, c.block, c.genesis_state)
      [] c.kind = "side_effect" -> side_effect_closure(data, c.block, c.outcomes[run])

----------------------------------------------------------------------------
\* MemoryTransactional: two replicas of the state, `first` exposed.

MemoryTransactional_new(data) == [first |-> data, second |-> data]

\* apply(f): r1 is f run on the first replica, r2 is f run on the second one
\* (used only when r1 succeeded).
\* apply that leaves the first replica as the failed closure left it.
MemoryTransactional_apply_no_restore(tx, r1, r2) ==
    IF r1.result.ok
    THEN IF r2.result.ok
         THEN [first |-> r1.data, second |-> r2.data, result |-> r1.result,
               branch |-> "commit"]
         ELSE [first |-> r1.data, second |-> r1.data, result |-> r1.result,
               branch |-> "repair"]
    ELSE [first |-> r1.data, second |-> tx.second, result |-> r1.result,
          branch |-> "rollback"]

\* apply that, when the second replica fails, restores the first from the
\* second instead of overwriting the second.
MemoryTransactional_apply_repair_backwards(tx, r1, r2) ==
    IF r1.result.ok
    THEN IF r2.result.ok
         THEN [first |-> r1.data, second |-> r2.data, result |-> r1.result,
               branch |-> "commit"]
         ELSE [first |-> tx.second, second |-> tx.second, result |-> r1.result,
               branch |-> "repair"]
    ELSE [first |-> tx.second, second |-> tx.second, result |-> r1.result,
          branch |-> "rollback"]

\* apply that leaves the second replica as the failed closure left it.
MemoryTransactional_apply_no_resync(tx, r1, r2) ==
    IF r1.result.ok
    THEN IF r2.result.ok
         THEN [first |-> r1.data, second |-> r2.data, result |-> r1.result,
               branch |-> "commit"]
         ELSE [first |-> r1.data, second |-> r2.data, result |-> r1.result,
               branch |-> "repair"]
    ELSE [first |-> tx.second, second |-> tx.second, result |-> r1.result,
          branch |-> "rollback"]

\* apply that, after a failure on the first replica, restores the flat state
\* and leaves the fork tree as the closure left it.
MemoryTransactional_apply_restores_state_only(tx, r1, r2) ==
    IF r1.result.ok
    THEN IF r2.result.ok
         THEN [first |-> r1.data, second |-> r2.data, result |-> r1.result,
               branch |-> "commit"]
         ELSE [first |-> r1.data, second |-> r1.data, result |-> r1.result,
               branch |-> "repair"]
    ELSE [first |-> ChainData(r1.data.fork_tree, tx.second.state),
          second |-> tx.second, result |-> r1.result, branch |-> "rollback"]

\* apply that reports the error of the second replica after overwriting it.
MemoryTransactional_apply_repair_reports_error(tx, r1, r2) ==
    IF r1.result.ok
    THEN IF r2.result.ok
         THEN [first |-> r1.data, second |-> r2.data, result |-> r1.result,
               branch |-> "commit"]
         ELSE [first |-> r1.data, second |-> r1.data, result |-> r2.result,
               branch |-> "repair"]
    ELSE [first |-> tx.second, second |-> tx.second, result |-> r1.result,
          branch |-> "rollback"]

\* `branch` names the way taken: both replicas succeeded ("commit"), the second
\* one failed and was overwritten ("repair"), the first one failed and was
\* restored ("rollback").
MemoryTransactional_apply(tx, r1, r2) ==
    IF r1.result.ok
    THEN IF r2.result.ok
         THEN [first |-> r1.data, second |-> r2.data, result |-> r1.result,
               branch |-> "commit"]
         ELSE [first |-> r1.data, second |-> r1.data, result |-> r1.result,
               branch |-> "repair"]
    ELSE [first |-> tx.second, second |-> tx.second, result |-> r1.result,
          branch |-> "rollback"]

\* apply called with the closure c.
ApplyClosure(tx, c) ==
    MemoryTransactional_apply(tx, RunClosure(c, tx.first, 1), RunClosure(c, tx.second, 2))

----------------------------------------------------------------------------
\* The chain behind the transactional wrapper.

NoOutcomes == <<TRUE, TRUE>>

\* The outcomes of a side effect in the two runs apply makes of a closure
\* (there is no second run after a first one that failed).
Outcomes == {<<TRUE, TRUE>>, <<TRUE, FALSE>>, <<FALSE, FALSE>>}

ImportClosure(b) == Closure("import", b, <<>>, NoOutcomes)

GenesisClosure(b, genesis_state) == Closure("genesis", b, genesis_state, NoOutcomes)

SideEffectClosure(b, outcomes) == Closure("side_effect", b, <<>>, outcomes)

\* The chain's blocks are numbered as ChainBlockBuilder numbers them
\* (simple.rs:176-185): a block that has a parent is numbered one more than it.
\* The blocks 1..NumRoots may come without a parent.
ChainParentsOf(id) ==
    (IF id <= NumRoots THEN {None} ELSE {}) \cup ({id - 1} \cap Ids)

\* Blocks handed to Chain::import.
ChainBlocks ==
    UNION {{Block(id, p, seal, x) : p \in ChainParentsOf(id), seal \in Seals,
                                    x \in ExtrinsicLists} : id \in Ids}

\* Genesis blocks (simple.rs:208-217): no parent, no extrinsics, no valid seal.
GenesisBlocks == {Block(id, None, "InvalidSeal", <<>>) : id \in 1..NumRoots}

\* Blocks inserted by a closure with a side effect.
SideEffectBlocks ==
    UNION {{Block(id, p, "ValidSeal", <<>>) : p \in ChainParentsOf(id)} : id \in Ids}

\* Genesis states: changesets given as vectors of (key, optional value).
GenesisStates == {<<<<100, 1>>, <<200, 2>>>>}

\* txcall: the closure of the call, the way apply took ("none" when apply was
\* not reached), and the returned result.
TxCall(closure, branch, result) ==
    [op |-> closure.kind, closure |-> closure, branch |-> branch, result |-> result]

NoTxCall ==
    TxCall(Closure("none", Block(1, None, "ValidSeal", <<>>), <<>>, NoOutcomes),
           "none", COk)

\* The caller's side of a closure that inserts b into both replicas.
ChainInsertAllowed(b) ==
    /\ InsertAllowed(first.fork_tree, b)
    /\ InsertAllowed(second.fork_tree, b)

Returned(c, r) ==
    /\ first' = r.first
    /\ second' = r.second
    /\ txcall' = TxCall(c, r.branch, r.result)

\* self.data.apply(c)
Applied(c) == Returned(c, ApplyClosure([first |-> first, second |-> second], c))

\* Chain::import (simple.rs:121-146): the seal is checked before apply.
Import(b) ==
    /\ ChainInsertAllowed(b)
    /\ IF b.seal # "ValidSeal"
       THEN /\ txcall' = TxCall(ImportClosure(b), "none",
                                 CErr("InvalidSeal", "None", "None"))
            /\ UNCHANGED <<first, second>>
       ELSE Applied(ImportClosure(b))
    /\ UNCHANGED <<tree, call, fs, scall, overlays, net>>

\* basic_build_and_import (simple.rs:236-246): the genesis block has no parent.
Genesis(b, genesis_state) ==
    /\ ChainInsertAllowed(b)
    /\ Applied(GenesisClosure(b, genesis_state))
    /\ UNCHANGED <<tree, call, fs, scall, overlays, net>>

\* apply with a closure whose side effect has the given outcome in each run.
SideEffect(b, outcomes) ==
    /\ ChainInsertAllowed(b)
    /\ Applied(SideEffectClosure(b, outcomes))
    /\ UNCHANGED <<tree, call, fs, scall, overlays, net>>

TxIdle ==
    LET tx == MemoryTransactional_new(ChainData(MemoryForkTree_new, MemoryFlatState_new))
    IN  /\ first = tx.first
        /\ second = tx.second
        /\ txcall = NoTxCall

----------------------------------------------------------------------------
\* A flat state and its overlays over a fork tree, used directly.

StateIds == 1..NumStateIds

\* The blocks inserted below a flat state: block 1 is the root, and block id
\* is built on block id / 2 (two children per block).
StateBlocks == {Block(id, id \div 2, "ValidSeal", <<>>) : id \in StateIds}

\* The changesets given to apply: one key, set to a value or removed.
Changesets == {<<<<100, v>>>> : v \in Values \cup {None}}

\* The two overlays of a flat state, and the slot of an overlay not created
\* or dropped.
Overlays == {1, 2}

NoOverlay == overlayed(None)

IsOpen(i) == overlays[i] # NoOverlay

\* An OverlayedFlatState borrows the flat state and the fork tree
\* (state.rs:72-78): neither is mutated while an overlay is alive.
NotBorrowed == \A i \in Overlays : ~IsOpen(i)

StateCall(op, ov, block_id, key, value, changeset, result) ==
    [op |-> op, ov |-> ov, block_id |-> block_id, key |-> key, value |-> value,
     changeset |-> changeset, result |-> result]

NoStateCall == StateCall("none", 0, None, 0, None, <<>>, QOk(None))

\* fork_tree.insert(b)
StateInsert(b) ==
    /\ NotBorrowed
    /\ InsertAllowed(tree, b)
    /\ LET r == insert(tree, b)
       IN  /\ tree' = r.ft
           /\ scall' = StateCall("insert", 0, b.id, 0, None, <<>>, r.result)
    /\ UNCHANGED <<call, first, second, txcall, fs, overlays, net>>

\* flat_state.apply(changeset, block_id, &fork_tree)
StateApply(changeset, block_id) ==
    /\ NotBorrowed
    /\ LET r == FlatState_apply(fs, changeset, block_id, tree)
       IN  /\ fs' = r.state
           /\ scall' = StateCall("apply", 0, block_id, 0, None, changeset, r.result)
    /\ UNCHANGED <<tree, call, first, second, txcall, overlays, net>>

\* flat_state.overlayed(block_id, &fork_tree)
OverlayOpen(i, block_id) ==
    /\ ~IsOpen(i)
    /\ overlays' = [overlays EXCEPT ![i] = overlayed(block_id)]
    /\ scall' = StateCall("overlayed", i, block_id, 0, None, <<>>, QOk(None))
    /\ UNCHANGED <<tree, call, first, second, txcall, fs, net>>

\* overlay.insert(key, value): the overlay of every borrower of the flat
\* state takes the write.
OverlayInsert_shared(i, key, value) ==
    /\ IsOpen(i)
    /\ overlays' = [j \in Overlays |->
                       IF IsOpen(j) THEN Overlay_insert(overlays[j], key, value)
                       ELSE overlays[j]]
    /\ scall' = StateCall("insert_key", i, overlays[i].block_id, key, value,
                          <<>>, QOk(None))
    /\ UNCHANGED <<tree, call, first, second, txcall, fs, net>>

\* overlay.insert(key, value) that also records the write in the flat state.
OverlayInsert_write_through(i, key, value) ==
    /\ IsOpen(i)
    /\ overlays' = [overlays EXCEPT ![i] = Overlay_insert(@, key, value)]
    /\ fs' = FlatState_apply(fs, <<<<key, value>>>>, overlays[i].block_id, tree).state
    /\ scall' = StateCall("insert_key", i, overlays[i].block_id, key, value,
                          <<>>, QOk(None))
    /\ UNCHANGED <<tree, call, first, second, txcall, net>>

\* overlay.insert(key, value)
OverlayInsert(i, key, value) ==
    /\ IsOpen(i)
    /\ overlays' = [overlays EXCEPT ![i] = Overlay_insert(@, key, value)]
    /\ scall' = StateCall("insert_key", i, overlays[i].block_id, key, value,
                          <<>>, QOk(None))
    /\ UNCHANGED <<tree, call, first, second, txcall, fs, net>>

\* overlay.remove(key)
OverlayRemove(i, key) ==
    /\ IsOpen(i)
    /\ overlays' = [overlays EXCEPT ![i] = Overlay_remove(@, key)]
    /\ scall' = StateCall("remove_key", i, overlays[i].block_id, key, None,
                          <<>>, QOk(None))
    /\ UNCHANGED <<tree, call, first, second, txcall, fs, net>>

\* overlay.get(key): one of the results the call can return.
OverlayGet(i, key) ==
    /\ IsOpen(i)
    /\ \E r \in Overlay_get(overlays[i], key, fs, tree) :
           scall' = StateCall("get", i, overlays[i].block_id, key, None, <<>>, r)
    /\ UNCHANGED <<tree, call, first, second, txcall, fs, overlays, net>>

\* The overlay is dropped without into_changeset.
OverlayDiscard(i) ==
    /\ IsOpen(i)
    /\ overlays' = [overlays EXCEPT ![i] = NoOverlay]
    /\ scall' = StateCall("drop", i, overlays[i].block_id, 0, None, <<>>, QOk(None))
    /\ UNCHANGED <<tree, call, first, second, txcall, fs, net>>

StateIdle ==
    /\ fs = MemoryFlatState_new
    /\ scall = NoStateCall
    /\ overlays = [i \in Overlays |-> NoOverlay]

-----------------------------------------------------------------------------
\* blocknet, libp2p worker: broadcast listeners.  Service::listen creates a
\* channel, keeps its Receiver and hands the Sender to the worker in a
\* BroadcastListen action item; Worker::step takes one action item or one
\* swarm event at a time.  Of the action items, the model covers the one that
\* registers a listener; of the swarm events, the gossipsub message.

\* Channels created by Service::listen in a run.
NumListeners == 3

MESSAGE_CHANNEL_BUFFER_SIZE == 16

Topics == {"block", "extrinsic"}

Peers == {1}

Payloads == {1}

Listeners == 1..NumListeners

AnyMessage(topic, serialized) == [topic |-> topic, serialized |-> serialized]

\* The last thing that happened in the network: the operation, its inputs and
\* what Worker::step returned.
NetStep(op, topic, source, serialized, result) ==
    [op |-> op, topic |-> topic, source |-> source,
     serialized |-> serialized, result |-> result]

\* Worker::new: no listener, an empty action channel; no channel exists yet.
Worker_new ==
    [channels |-> 0,
     action_receiver |-> <<>>,
     broadcast_listen_senders |-> <<>>,
     closed |-> {},
     received |-> [l \in Listeners |-> <<>>],
     step |-> NetStep("new", "", None, 0, "Ok")]

NetIdle == net = Worker_new

Init == TreeInit /\ TxIdle /\ StateIdle /\ NetIdle

\* Sender::is_closed: the Receiver of the channel was dropped.
is_closed(n, sender) == sender \in n.closed

\* entry.1.retain(|sender| sender.is_closed())
retain(n, senders) ==
    LET Keep(sender) == is_closed(n, sender)
    IN  SelectSeq(senders, Keep)

\* for sender in &mut entry.1 { sender.send(item).await?; }: the first send
\* on a closed channel ends the loop with Error::ChannelSend.
RECURSIVE send_each(_, _, _, _)
send_each(senders, closed, received, item) ==
    IF senders = <<>>
    THEN [received |-> received, result |-> "Ok"]
    ELSE IF Head(senders) \in closed
         THEN [received |-> received, result |-> "ChannelSend"]
         ELSE send_each(Tail(senders), closed,
                        [received EXCEPT ![Head(senders)] = Append(@, item)],
                        item)

\* A send on an open channel whose buffer is full waits for the receiver: the
\* channel holds its buffer size plus one item for its only Sender.
HasRoom(n, senders) ==
    \A i \in DOMAIN senders :
        ~is_closed(n, senders[i])
            => Len(n.received[senders[i]]) < MESSAGE_CHANNEL_BUFFER_SIZE + 1

\* Service::listen: a new channel whose Sender goes into the action channel.
\* The action channel holds more items than a run creates.
Service_listen(topic) ==
    /\ net.channels < NumListeners
    /\ net' = [net EXCEPT
                  !.channels = @ + 1,
                  !.action_receiver =
                      Append(@, [sender |-> net.channels + 1, topic |-> topic]),
                  !.step = NetStep("listen", topic, None, 0, "Ok")]
    /\ UNCHANGED <<tree, call, first, second, txcall, fs, scall, overlays>>

\* The stream returned by Service::listen is dropped by its owner.
Receiver_drop(l) ==
    /\ l \in 1..net.channels
    /\ l \notin net.closed
    /\ net' = [net EXCEPT
                  !.closed = @ \cup {l},
                  !.step = NetStep("drop", "", None, l, "Ok")]
    /\ UNCHANGED <<tree, call, first, second, txcall, fs, scall, overlays>>

\* Worker::step on ActionItem::BroadcastListen: subscribe, and when that
\* succeeds push the sender onto the topic's entry, created empty if absent.
Worker_step_BroadcastListen(subscribed) ==
    /\ net.action_receiver # <<>>
    /\ LET action == Head(net.action_receiver)
           senders == IF action.topic \in DOMAIN net.broadcast_listen_senders
                      THEN net.broadcast_listen_senders[action.topic]
                      ELSE <<>>
           entries == [t \in DOMAIN net.broadcast_listen_senders \cup {action.topic} |->
                          IF t = action.topic
                          THEN Append(senders, action.sender)
                          ELSE net.broadcast_listen_senders[t]]
       IN  net' = [net EXCEPT
                      !.action_receiver = Tail(@),
                      !.broadcast_listen_senders =
                          IF subscribed THEN entries ELSE @,
                      !.step = NetStep("BroadcastListen", action.topic, None,
                                       action.sender,
                                       IF subscribed THEN "Ok"
                                       ELSE "GossipsubSubscription")]
    /\ UNCHANGED <<tree, call, first, second, txcall, fs, scall, overlays>>

\* Worker::step on gossipsub::Event::Message.
Worker_step_Message(topic, source, data) ==
    IF topic \notin DOMAIN net.broadcast_listen_senders
    THEN /\ net' = [net EXCEPT !.step = NetStep("Message", topic, source, data, "Ok")]
         /\ UNCHANGED <<tree, call, first, second, txcall, fs, scall, overlays>>
    ELSE LET kept == retain(net, net.broadcast_listen_senders[topic])
             sent == send_each(kept, net.closed, net.received,
                               <<source, AnyMessage(topic, data)>>)
         IN  /\ source # None => HasRoom(net, kept)
             /\ net' = [net EXCEPT
                           !.broadcast_listen_senders[topic] = kept,
                           !.received = IF source # None THEN sent.received ELSE @,
                           !.step = NetStep("Message", topic, source, data,
                                            IF source # None THEN sent.result
                                            ELSE "UnknownOriginBroadcast")]
             /\ UNCHANGED <<tree, call, first, second, txcall, fs, scall, overlays>>

NextNet ==
    \/ \E topic \in Topics : Service_listen(topic)
    \/ \E l \in Listeners : Receiver_drop(l)
    \/ \E subscribed \in BOOLEAN : Worker_step_BroadcastListen(subscribed)
    \/ \E topic \in Topics, source \in Peers \cup {None}, data \in Payloads :
           Worker_step_Message(topic, source, data)

SpecNet == Init /\ [][NextNet]_vars


\* The changesets given to apply at the root block: a second key, and a key
\* listed twice.
RootChangesets == {<<<<200, 1>>, <<100, 1>>, <<100, 2>>>>}

NextState ==
    \/ \E b \in StateBlocks : StateInsert(b)
    \/ \E c \in Changesets, id \in StateIds : StateApply(c, id)
    \/ \E c \in RootChangesets : StateApply(c, 1)

SpecState == Init /\ [][NextState]_vars

\* The blocks the overlays are created on: a root and its child.
OverlayIds == {1, 2}

OverlayBlocks == {b \in StateBlocks : b.id \in OverlayIds}

\* The changesets applied to the flat state below the overlays.
OverlayChangesets == {<<<<100, 1>>>>, <<<<100, None>>>>}

NextOverlay ==
    \/ \E b \in OverlayBlocks : StateInsert(b)
    \/ \E c \in OverlayChangesets, id \in OverlayIds : StateApply(c, id)
    \/ \E i \in Overlays, id \in OverlayIds : OverlayOpen(i, id)
    \/ \E i \in Overlays, k \in Keys, v \in Values : OverlayInsert(i, k, v)
    \/ \E i \in Overlays, k \in Keys : OverlayRemove(i, k)
    \/ \E i \in Overlays, k \in Keys : OverlayGet(i, k)
    \/ \E i \in Overlays : OverlayDiscard(i)

SpecOverlay == Init /\ [][NextOverlay]_vars

\* The end of Chain::import (simple.rs:132-142): the overlay was created at
\* the parent of a block that was inserted just before and has no entry yet;
\* into_changeset consumes the overlay, and its pairs are applied at the block.
\* apply borrows the flat state mutably, so no other overlay is alive.
OverlayCommit(i, block_id) ==
    /\ IsOpen(i)
    /\ \A j \in Overlays \ {i} : ~IsOpen(j)
    /\ block_id \in DOMAIN tree.blocks
    /\ tree.blocks[block_id].block.parent_id = overlays[i].block_id
    /\ \A k \in DOMAIN fs :
           \A d \in DOMAIN fs[k] : block_id \notin DOMAIN fs[k][d]
    /\ LET r == FlatState_apply(fs, into_changeset(overlays[i]), block_id, tree)
       IN  /\ fs' = r.state
           /\ scall' = StateCall("apply", i, block_id, 0, None,
                                 into_changeset(overlays[i]), r.result)
    /\ overlays' = [overlays EXCEPT ![i] = NoOverlay]
    /\ UNCHANGED <<tree, call, first, second, txcall, net>>

\* One overlay at a time, committed at the child of its parent block.
NextCommit ==
    \/ \E b \in OverlayBlocks : StateInsert(b)
    \/ \E c \in OverlayChangesets : StateApply(c, 1)
    \/ \E id \in OverlayIds : OverlayOpen(1, id)
    \/ \E k \in Keys, v \in Values : OverlayInsert(1, k, v)
    \/ \E k \in Keys : OverlayRemove(1, k)
    \/ \E id \in OverlayIds : OverlayCommit(1, id)

SpecCommit == Init /\ [][NextCommit]_vars

Next == \E b \in TreeBlocks : Insert(b)

Spec == Init /\ [][Next]_vars

----------------------------------------------------------------------------
\* Properties of the fork tree, checked under Spec.

\* The blocks from the root down to `id`, by following the stored blocks'
\* parent identifiers.
RECURSIVE Path(_, _)
Path(t, id) ==
    LET p == t.blocks[id].block.parent_id
    IN  IF p = None \/ p \notin DOMAIN t.blocks THEN <<id>>
        ELSE Append(Path(t, p), id)

OnPath(t, id, a) == \E i \in 1..Len(Path(t, id)) : Path(t, id)[i] = a

Stored == DOMAIN tree.blocks

\* Depths asked of ancestor_id_at_depth.
QueryDepths == 0..(NumIds + 1)

\* C4: on every path b0 -> ... -> bn of stored blocks (b0 a root), for all
\* i <= j, ancestor_id_at_depth(b_j, i) returns b_i and is_ancestor(b_j, b_i)
\* returns true, whatever other forks the tree holds.
C4_PathAncestry ==
    \A bj \in Stored :
        \A i \in 1..Len(Path(tree, bj)) :
            LET bi == Path(tree, bj)[i]
                at == ancestor_id_at_depth(tree, bj, i - 1)
                is == is_ancestor(tree, bj, bi)
            IN  /\ at.ok /\ at.val = bi
                /\ is.ok /\ is.val = TRUE

\* C5: for every stored block a at depth d, ancestor_id_at_depth(a, d)
\* succeeds and returns a.
C5_OwnDepth ==
    \A a \in Stored :
        LET at == ancestor_id_at_depth(tree, a, tree.blocks[a].depth)
        IN  at.ok /\ at.val = a

\* C6: for every stored block a, ancestor_id_at_depth(a, d) fails with
\* InvalidAncestorDepth for every d > depth(a), and does not fail with
\* InvalidAncestorDepth for any d <= depth(a).
C6_InvalidAncestorDepth ==
    \A a \in Stored :
        \A d \in QueryDepths :
            LET at == ancestor_id_at_depth(tree, a, d)
                invalid == ~at.ok /\ at.err = "InvalidAncestorDepth"
            IN  IF d > tree.blocks[a].depth THEN invalid ELSE ~invalid

\* C7: for two stored blocks of one tree (same root), neither of them on the
\* other's path to the root, is_ancestor returns false in both directions.
C7_DivergedForks ==
    \A ta \in Stored :
        \A tb \in Stored :
            (/\ Path(tree, ta)[1] = Path(tree, tb)[1]
             /\ ~OnPath(tree, ta, tb)
             /\ ~OnPath(tree, tb, ta))
            => LET is == is_ancestor(tree, ta, tb)
               IN  is.ok /\ is.val = FALSE

\* C8: for every stored block a, is_ancestor(a, a) returns true; for two
\* distinct stored blocks at the same depth, is_ancestor returns false.
C8_Reflexive ==
    \A a \in Stored :
        /\ LET is == is_ancestor(tree, a, a) IN is.ok /\ is.val = TRUE
        /\ \A b \in Stored :
               (a # b /\ tree.blocks[a].depth = tree.blocks[b].depth)
               => LET is == is_ancestor(tree, a, b) IN is.ok /\ is.val = FALSE

\* What every ancestor query of the five properties above returns instead: the
\* queries at a depth not above the block's own fail with InvalidAncestorDepth.
DepthCheckRejects ==
    \A a \in Stored :
        \A d \in QueryDepths :
            ancestor_id_at_depth(tree, a, d) = QErr("InvalidAncestorDepth")

\* C9: insert fails with UnknownParent exactly when the block declares a
\* parent that is not stored; the rejected block is not stored (block and
\* block_depth fail with UnknownBlock), and a later insert stores no block but
\* its own argument, so a rejected block is neither buffered nor retried.
C9_Rejected ==
    call.op = "insert" =>
        /\ (~call.result.ok /\ call.result.err = "UnknownParent")
           <=> (/\ call.block.parent_id # None
                /\ call.block.parent_id \notin DOMAIN call.pre.blocks)
        /\ (~call.result.ok /\ call.result.err = "UnknownParent")
           => /\ block(tree, call.block.id) = QErr("UnknownBlock")
              /\ block_depth(tree, call.block.id) = QErr("UnknownBlock")
              /\ tree = call.pre

C9_OnlyItsOwnBlock ==
    \A id \in Ids :
        (~block(tree, id).ok /\ block(tree', id).ok)
        => call'.op = "insert" /\ call'.block.id = id /\ call'.result.ok

\* C9: both parts, the result of every insert and the blocks a step stores.
C9_UnknownParent == []C9_Rejected /\ [][C9_OnlyItsOwnBlock]_vars

\* A block was rejected for its unknown parent by a tree that holds blocks.
C9_Witness ==
    /\ call.op = "insert"
    /\ ~call.result.ok /\ call.result.err = "UnknownParent"
    /\ Stored # {}

\* C10: a block without parent is accepted by insert in any tree state and is
\* stored at depth 0 with an empty skip-ancestor list; no block of one root's
\* tree is reported as an ancestor of a block of another root's tree.
C10_Roots ==
    /\ (call.op = "insert" /\ call.block.parent_id = None)
       => /\ call.result.ok
          /\ block(tree, call.block.id) = QOk(call.block)
          /\ block_depth(tree, call.block.id) = QOk(0)
    /\ \A a \in Stored :
           tree.blocks[a].block.parent_id = None
           => tree.blocks[a].depth = 0 /\ tree.blocks[a].ancestors = <<>>
    /\ \A a \in Stored :
           \A b \in Stored :
               Path(tree, a)[1] # Path(tree, b)[1]
               => LET is == is_ancestor(tree, a, b) IN ~(is.ok /\ is.val = TRUE)

\* Two roots coexist, the second accepted by a tree that already held blocks
\* below the first.
C10_Witness ==
    /\ call.op = "insert" /\ call.block.parent_id = None /\ call.result.ok
    /\ \E a \in Stored :
           /\ a # call.block.id
           /\ tree.blocks[a].depth > 0
           /\ Path(tree, a)[1] # call.block.id

\* C11: every stored block without parent has depth 0; every stored block
\* with a parent has a stored parent and the parent's depth plus one;
\* block_depth returns the stored depth.
C11_DepthInvariant ==
    \A a \in Stored :
        LET item == tree.blocks[a]
            p == item.block.parent_id
        IN  /\ p = None => item.depth = 0
            /\ p # None => /\ p \in Stored
                           /\ item.depth = tree.blocks[p].depth + 1
            /\ block_depth(tree, a) = QOk(item.depth)

\* A chain of three blocks below a root, next to a second root.
C11_Witness ==
    /\ \E a \in Stored : tree.blocks[a].depth = 3
    /\ \E a \in Stored, b \in Stored :
           a # b /\ tree.blocks[a].depth = 0 /\ tree.blocks[b].depth = 0

\* C12: block and block_depth fail together, with UnknownBlock, and a stored
\* block is returned under its own identifier.
C12_Known ==
    \A id \in Ids :
        LET got == block(tree, id)
            depth == block_depth(tree, id)
        IN  /\ got.ok <=> depth.ok
            /\ ~got.ok => got = QErr("UnknownBlock") /\ depth = QErr("UnknownBlock")
            /\ got.ok => got.val.id = id

\* C12: an identifier is known after a step exactly when it was known before
\* or the step is a successful insert of a block with that identifier, and
\* block returns the value that was inserted.
C12_KnownStep ==
    \A id \in Ids :
        LET was == block(tree, id)
            now == block(tree', id)
            inserted == /\ call'.op = "insert" /\ call'.result.ok
                        /\ call'.block.id = id
        IN  /\ now.ok <=> (was.ok \/ inserted)
            /\ now.ok => now.val = IF was.ok THEN was.val ELSE call'.block

\* C12: both parts, in every state and over every step.
C12_UnknownBlock == []C12_Known /\ [][C12_KnownStep]_vars

\* An insert failed after its parent was found, next to a stored block: the
\* block of the failed insert is unknown, the stored one is returned.
C12_Witness ==
    /\ call.op = "insert" /\ ~call.result.ok /\ call.result.err = "Query"
    /\ block(tree, call.block.id) = QErr("UnknownBlock")
    /\ block(tree, call.block.parent_id).ok

\* The exponents e of the skip magnitudes m = 4^e with m <= d and d mod m = 0.
SkipExponents(d) ==
    {e \in 1..NumSkipDepths : GeqPow4(d, e) /\ DivisibleByPow4(d, e)}

\* The pairs (d - m, true ancestor at depth d - m) of stored block a, the true
\* ancestor being read off a's path to the root.
SkipPairs(a) ==
    LET d == tree.blocks[a].depth
    IN  {<<d - 4^e, Path(tree, a)[d - 4^e + 1]>> : e \in SkipExponents(d)}

NoSkipListStored ==
    \A a \in Stored : tree.blocks[a].depth < 4 /\ tree.blocks[a].ancestors = <<>>

\* C24: for a stored block a and a target below its depth, the call returns
\* the block of a's path at depth target; its loop starts at a, every hop goes
\* to the recorded skip-ancestor of smallest depth that is still >= target, or
\* to the parent when there is none, and every visited block is on a's path,
\* strictly less deep than the one before and not below target.
C24_Traversal ==
    \A a \in Stored :
        \A target \in 0..(tree.blocks[a].depth - 1) :
            LET at == ancestor_id_at_depth(tree, a, target)
                v == ancestor_id_at_depth_visits(tree, a, target)
            IN  /\ at = QOk(Path(tree, a)[target + 1])
                /\ v # <<>> /\ v[1] = a /\ v[Len(v)] = at.val
                /\ \A i \in 1..(Len(v) - 1) :
                       /\ v[i + 1] = next_ancestor_id(tree.blocks[v[i]], target)
                       /\ OnPath(tree, a, v[i + 1])
                       /\ tree.blocks[v[i + 1]].depth < tree.blocks[v[i]].depth
                       /\ tree.blocks[v[i + 1]].depth >= target

NoVisits ==
    \A a \in Stored :
        \A target \in 0..tree.blocks[a].depth :
            ancestor_id_at_depth_visits(tree, a, target) = <<>>

\* C29: over every insert, successful or failed, every stored block stays
\* stored, block and block_depth return for it what they returned, its
\* skip-ancestors are the same, and its node differs at most in its children
\* list, which only gets the inserted block appended.
C29_StableStep ==
    \A id \in Stored :
        /\ id \in DOMAIN tree'.blocks
        /\ block(tree', id) = block(tree, id)
        /\ block_depth(tree', id) = block_depth(tree, id)
        /\ tree'.blocks[id].ancestors = tree.blocks[id].ancestors
        /\ tree'.blocks[id] = [tree.blocks[id] EXCEPT !.children = tree'.blocks[id].children]
        /\ \/ tree'.blocks[id].children = tree.blocks[id].children
           \/ /\ tree'.blocks[id].children
                     = Append(tree.blocks[id].children, call'.block.id)
              /\ call'.block.parent_id = id

\* C29: every step leaves the stored nodes as they are, but for a child added.
C29_Stable == [][C29_StableStep]_vars

\* An insert succeeded for a block that an earlier, failed insert had
\* appended to the children of another stored block.
C29_Witness ==
    /\ call.op = "insert" /\ call.result.ok
    /\ \E a \in Stored :
           /\ call.block.parent_id # a
           /\ \E i \in 1..Len(tree.blocks[a].children) :
                  tree.blocks[a].children[i] = call.block.id

\* C33: the insert of a block with a fresh identifier whose parent is stored
\* succeeds, at every depth: the resolution of the skip-ancestors returns no
\* query error.
C33_InsertSucceeds ==
    (/\ call.op = "insert"
     /\ call.block.id \notin DOMAIN call.pre.blocks
     /\ call.block.parent_id \in DOMAIN call.pre.blocks)
    => /\ call.result = IOk
       /\ block(tree, call.block.id) = QOk(call.block)

\* The inserts that fail below a stored parent: those at depth 4, with the
\* query error InvalidAncestorDepth.
InsertFailsAtDepth4 ==
    (/\ call.op = "insert"
     /\ call.block.parent_id \in DOMAIN call.pre.blocks)
    => IF call.pre.blocks[call.block.parent_id].depth = 3
       THEN call.result = IErr("Query", "InvalidAncestorDepth")
       ELSE call.result = IOk

\* C34: whenever insert returns an error, the tree is as before the call:
\* the block map, the depth index and every node's children list.
C34_FailedInsertFrame ==
    (call.op = "insert" /\ ~call.result.ok)
    => /\ tree.blocks = call.pre.blocks
       /\ tree.depths = call.pre.depths
       /\ \A a \in DOMAIN call.pre.blocks :
              tree.blocks[a].children = call.pre.blocks[a].children

\* What a failed insert leaves behind: nothing after UnknownParent, and the
\* block's identifier at the end of its parent's children after a query error.
FailedInsertAppends ==
    (call.op = "insert" /\ ~call.result.ok)
    => IF call.result.err = "UnknownParent" THEN tree = call.pre
       ELSE tree = [call.pre EXCEPT
                       !.blocks[call.block.parent_id].children = Append(@, call.block.id)]

----------------------------------------------------------------------------
\* Properties of the flat state, checked under SpecState.

\* Block w has an entry for `key` in the flat state (apply recorded one at
\* w's depth under w's identifier).
Recorded(key, w) ==
    /\ w \in Stored
    /\ key \in DOMAIN fs
    /\ tree.blocks[w].depth \in DOMAIN fs[key]
    /\ w \in DOMAIN fs[key][tree.blocks[w].depth]

\* The entry of block w for `key`.
Entry(key, w) == fs[key][tree.blocks[w].depth][w]

\* The blocks on the path from the root to b that have an entry for `key`.
PathWriters(key, b) == {w \in Stored : OnPath(tree, b, w) /\ Recorded(key, w)}

\* The deepest of a set of blocks of one path.
Deepest(ws) == CHOOSE w \in ws : \A x \in ws : tree.blocks[x].depth <= tree.blocks[w].depth

\* C13: after apply([(k, Some(v))], b, ft) succeeds, get(k, b, ft) returns
\* Some(v), and after apply([(k, None)], b, ft) it returns None, whatever b
\* or an ancestor of b recorded before.
C13_RoundTrip ==
    (scall.op = "apply" /\ scall.result.ok)
    => \A i \in 1..Len(scall.changeset) :
           FlatState_get(fs, scall.changeset[i][1], scall.block_id, tree)
               = {QOk(scall.changeset[i][2])}

\* C14: for a key written only at block x, and a stored block y other than x
\* that does not have x on its path to the root, get(k, y) returns None (y's
\* ancestry recorded nothing), also when y is deeper than x.
C14_ForkIsolation ==
    \A k \in Keys :
        \A x \in Stored :
            \A y \in Stored :
                (/\ Recorded(k, x)
                 /\ \A w \in Stored : Recorded(k, w) => w = x
                 /\ y # x
                 /\ ~OnPath(tree, y, x))
                => FlatState_get(fs, k, y, tree) = {QOk(None)}

\* C15: get(k, b) returns the entry of the deepest block that is b or an
\* ancestor of b and has an entry for k.
C15_NearestAncestor ==
    \A k \in Keys :
        \A b \in Stored :
            PathWriters(k, b) # {}
            => FlatState_get(fs, k, b, tree) = {QOk(Entry(k, Deepest(PathWriters(k, b))))}

\* C16: when the deepest block on b's path with an entry for k recorded a
\* removal, get(k, b) returns None, whatever values shallower ancestors
\* recorded for k.
C16_TombstonePrecedence ==
    \A k \in Keys :
        \A b \in Stored :
            (/\ PathWriters(k, b) # {}
             /\ Entry(k, Deepest(PathWriters(k, b))) = None
             /\ \E w \in PathWriters(k, b) : Entry(k, w) # None)
            => FlatState_get(fs, k, b, tree) = {QOk(None)}

\* C17: for a stored block b and a key that neither b nor an ancestor of b
\* has an entry for, get(k, b) returns Ok(None) and never an error, whatever
\* other forks or descendants of b recorded for k.
C17_NoEntry ==
    \A k \in Keys :
        \A b \in Stored :
            PathWriters(k, b) = {}
            => FlatState_get(fs, k, b, tree) = {QOk(None)}

\* What get returns instead in the five properties above: an error whenever
\* the key has an entry at a depth not below the block's, since the scan then
\* asks is_ancestor; Ok(None) otherwise.
GetRejects ==
    \A k \in Keys :
        \A b \in Stored :
            FlatState_get(fs, k, b, tree) =
                IF \E w \in Stored :
                       Recorded(k, w) /\ tree.blocks[w].depth <= tree.blocks[b].depth
                THEN {QErr("InvalidAncestorDepth")}
                ELSE {QOk(None)}

\* Block w of fork tree ft has an entry for `key` in `state`.
RecordedIn(state, ft, key, w) ==
    /\ w \in DOMAIN ft.blocks
    /\ key \in DOMAIN state
    /\ ft.blocks[w].depth \in DOMAIN state[key]
    /\ w \in DOMAIN state[key][ft.blocks[w].depth]

EntryIn(state, ft, key, w) == state[key][ft.blocks[w].depth][w]

\* The keys a changeset lists, and the value of the last pair that lists key.
KeysOf(changeset) == {changeset[i][1] : i \in 1..Len(changeset)}

LastValue(changeset, key) ==
    LET last == CHOOSE i \in 1..Len(changeset) :
                    /\ changeset[i][1] = key
                    /\ \A j \in (i + 1)..Len(changeset) : changeset[j][1] # key
    IN  changeset[last][2]

\* What a successful apply at block b does to b's entries: a key of the
\* changeset is recorded with the value of the last pair that lists it, and a
\* key the changeset does not list is recorded as before.
AppliedEntries ==
    (scall'.op = "apply" /\ scall'.result.ok)
    => \A k \in Keys :
           IF k \in KeysOf(scall'.changeset)
           THEN /\ RecordedIn(fs', tree', k, scall'.block_id)
                /\ EntryIn(fs', tree', k, scall'.block_id)
                       = LastValue(scall'.changeset, k)
           ELSE /\ RecordedIn(fs', tree', k, scall'.block_id)
                       <=> RecordedIn(fs, tree, k, scall'.block_id)
                /\ RecordedIn(fs, tree, k, scall'.block_id)
                   => EntryIn(fs', tree', k, scall'.block_id)
                          = EntryIn(fs, tree, k, scall'.block_id)

\* What get returns for the keys of the changeset after a successful apply at
\* block b: the value of the last pair that lists the key.
AppliedReads ==
    (scall'.op = "apply" /\ scall'.result.ok)
    => \A k \in KeysOf(scall'.changeset) :
           FlatState_get(fs', k, scall'.block_id, tree')
               = {QOk(LastValue(scall'.changeset, k))}

\* C27: an apply for a block replaces the value recorded for each key of its
\* changeset, the last pair of a key winning, so that get(k, block) returns
\* the latest value; the keys recorded for the block by an earlier apply and
\* absent from the changeset keep their value.
C27_Overwrite == [][AppliedEntries /\ AppliedReads]_vars

\* The part of C27 that is about the recorded entries.
EntriesOverwritten == [][AppliedEntries]_vars

\* C30: for every key, with or without entries, and every block identifier
\* that is not stored in the fork tree, get fails with UnknownBlock.
C30_GetUnknownBlock ==
    \A k \in Keys :
        \A id \in StateIds \ Stored :
            FlatState_get(fs, k, id, tree) = {QErr("UnknownBlock")}

\* What get returns for a block that is not stored: UnknownBlock when the key
\* has an entry, of whatever block, and Ok(None) when it has none.
GetUnknownBlockByKey ==
    \A k \in Keys :
        \A id \in StateIds \ Stored :
            FlatState_get(fs, k, id, tree) =
                IF k \in DOMAIN fs THEN {QErr("UnknownBlock")} ELSE {QOk(None)}

\* What get can return for each key at each block identifier.
AllReads(state, ft) ==
    [k \in Keys |-> [id \in StateIds |-> FlatState_get(state, k, id, ft)]]

\* C31: apply for a block identifier that is not stored fails with
\* UnknownBlock and records nothing: the flat state is as before, and get
\* returns for every key and block what it returned before the call.
C31_ApplyUnknownStep ==
    (scall'.op = "apply" /\ scall'.block_id \notin DOMAIN tree.blocks)
    => /\ scall'.result = QErr("UnknownBlock")
       /\ fs' = fs
       /\ AllReads(fs', tree') = AllReads(fs, tree)

\* C31: every apply at an unknown block is rejected without effect.
C31_ApplyUnknownBlock == [][C31_ApplyUnknownStep]_vars

\* An apply was rejected for its unknown block by a flat state with entries.
C31_Witness ==
    /\ scall.op = "apply" /\ scall.result = QErr("UnknownBlock")
    /\ scall.block_id \notin Stored
    /\ \E w \in Stored : Recorded(100, w)

\* The blocks with an entry for `key` at depth d.
WritersAt(key, d) == {w \in Stored : Recorded(key, w) /\ tree.blocks[w].depth = d}

\* C36: for every key and block, get has one result, whatever the order in
\* which the writers of a depth are scanned; and of the writers recorded at
\* one depth at most one is the block or an ancestor of it.
C36_Deterministic ==
    \A k \in Keys :
        \A b \in StateIds :
            /\ Cardinality(FlatState_get(fs, k, b, tree)) = 1
            /\ b \in Stored
               => \A d \in 0..tree.blocks[b].depth :
                      Cardinality({w \in WritersAt(k, d) : OnPath(tree, b, w)}) <= 1

\* Two blocks of one depth hold different values for the key, and a block
\* below one of them is stored: its get scans both writers.
C36_Witness ==
    \E w \in Stored :
        \E x \in Stored :
            /\ w # x
            /\ tree.blocks[w].depth = tree.blocks[x].depth
            /\ Recorded(100, w) /\ Recorded(100, x)
            /\ Entry(100, w) # Entry(100, x)
            /\ \E b \in Stored : b # w /\ OnPath(tree, b, w)

\* Block y is block x or a descendant of x.
InSubtree(ft, y, x) == y \in DOMAIN ft.blocks /\ OnPath(ft, y, x)

\* C37: after a successful apply(changeset, x, ft), get(k, y) is as before
\* for every key that is not in the changeset and every block y, and for a
\* key of the changeset at every stored block y that is neither x nor a
\* descendant of x.
C37_ApplyFrameStep ==
    (scall'.op = "apply" /\ scall'.result.ok)
    => \A k \in Keys :
           \A y \in StateIds :
               (\/ k \notin KeysOf(scall'.changeset)
                \/ (y \in DOMAIN tree'.blocks /\ ~InSubtree(tree', y, scall'.block_id)))
               => FlatState_get(fs', k, y, tree') = FlatState_get(fs, k, y, tree)

\* C37: every apply is confined to the written keys and the block's subtree.
C37_ApplyFrame == [][C37_ApplyFrameStep]_vars

----------------------------------------------------------------------------
\* Properties of the overlays, checked under SpecOverlay.

\* What get can return for each key on overlay `ov` of `state` and `ft`.
Reads(ov, state, ft) == [k \in Keys |-> Overlay_get(ov, k, state, ft)]

\* The step is a write (insert or remove) on an overlay.
OverlayWrite == scall'.op \in {"insert_key", "remove_key"}

\* C18: an insert or a remove on one overlay leaves what get returns on the
\* other overlay of the same flat state as it was, for every key, whether or
\* not the two overlays were created on the same parent block.
C18_IsolationStep ==
    OverlayWrite
    => \A j \in Overlays \ {scall'.ov} :
           /\ overlays'[j] = overlays[j]
           /\ Reads(overlays'[j], fs', tree') = Reads(overlays[j], fs, tree)

\* C18: every write on an overlay is isolated from the other overlay.
C18_Isolation == [][C18_IsolationStep]_vars

\* Two overlays on the same parent hold different values for one key.
C18_Witness ==
    /\ IsOpen(1) /\ IsOpen(2)
    /\ overlays[1].block_id = overlays[2].block_id
    /\ overlays[1].block_id \in Stored
    /\ scall.op = "insert_key" /\ scall.key = 100
    /\ 100 \in DOMAIN overlays[1].changeset /\ 100 \in DOMAIN overlays[2].changeset
    /\ overlays[1].changeset[100] # None /\ overlays[2].changeset[100] # None
    /\ overlays[1].changeset[100] # overlays[2].changeset[100]

\* C19: a new overlay reads every key from the flat state at its parent
\* block; after insert(k, v) get(k) returns Some(v) and after remove(k) it
\* returns None, whatever the flat state holds; a write of k leaves the other
\* keys as they read, a get leaves every key as it read, and it returns one
\* of the results the overlay could return.
C19_ReadStep ==
    LET ov == overlays'[scall'.ov]
        after == Reads(ov, fs', tree')
        before == Reads(overlays[scall'.ov], fs, tree)
    IN  /\ scall'.op = "overlayed"
           => \A k \in Keys :
                  after[k] = FlatState_get(fs', k, scall'.block_id, tree')
        /\ scall'.op = "insert_key" => after[scall'.key] = {QOk(scall'.value)}
        /\ scall'.op = "remove_key" => after[scall'.key] = {QOk(None)}
        /\ OverlayWrite => \A k \in Keys \ {scall'.key} : after[k] = before[k]
        /\ scall'.op = "get"
           => after = before /\ scall'.result \in before[scall'.key]

\* C19: every step on an overlay reads as described.
C19_OverlayRead == [][C19_ReadStep]_vars

\* get returned the inserted value of an overlay whose parent block has an
\* entry for the key in the flat state, the other key not being written.
C19_Witness ==
    /\ scall.op = "get" /\ scall.key = 100 /\ scall.result = QOk(2)
    /\ Recorded(100, overlays[scall.ov].block_id)
    /\ 200 \notin DOMAIN overlays[scall.ov].changeset

\* C20: creating an overlay, insert, remove and get on it, and dropping it,
\* leave the flat state and the fork tree as they were.
C20_BufferedStep ==
    scall'.op \in {"overlayed", "insert_key", "remove_key", "get", "drop"}
    => fs' = fs /\ tree' = tree

\* C20: every step on an overlay leaves the flat state and the fork tree alone.
C20_Buffered == [][C20_BufferedStep]_vars

\* A value was written on an overlay whose parent block has another entry for
\* the key in the flat state.
C20_Witness ==
    /\ scall.op = "insert_key"
    /\ Recorded(scall.key, scall.block_id)
    /\ Entry(scall.key, scall.block_id) # scall.value

\* The triples (key, depth, block id) that have an entry in `state`.
Triples(state) ==
    UNION {UNION {{<<k, d, id>> : id \in DOMAIN state[k][d]} : d \in DOMAIN state[k]}
           : k \in DOMAIN state}

\* C28: over every step (insert, apply, and creating, writing, reading or
\* dropping an overlay) no triple loses its entry; a triple gets its entry
\* only by a successful apply, for a key of the changeset, under the block
\* given to apply and at that block's depth; and a removal in the changeset is
\* recorded as an entry holding None.
C28_GrowStep ==
    /\ Triples(fs) \subseteq Triples(fs')
    /\ \A t \in Triples(fs') \ Triples(fs) :
           /\ scall'.op = "apply" /\ scall'.result.ok
           /\ t[1] \in KeysOf(scall'.changeset)
           /\ t[3] = scall'.block_id
           /\ block_depth(tree', t[3]) = QOk(t[2])
    /\ (scall'.op = "apply" /\ scall'.result.ok)
       => \A k \in KeysOf(scall'.changeset) :
              /\ <<k, tree'.blocks[scall'.block_id].depth, scall'.block_id>>
                     \in Triples(fs')
              /\ LastValue(scall'.changeset, k) = None
                 => EntryIn(fs', tree', k, scall'.block_id) = None

\* C28: every step only adds entries to the flat state.
C28_OnlyGrows == [][C28_GrowStep]_vars

\* A removal was applied at a block next to a block that holds a value for
\* the key: both blocks have an entry.
C28_Witness ==
    /\ scall.op = "apply" /\ scall.result.ok
    /\ scall.changeset = <<<<100, None>>>>
    /\ Recorded(100, scall.block_id) /\ Entry(100, scall.block_id) = None
    /\ \E w \in Stored : Recorded(100, w) /\ Entry(100, w) # None

\* The pairs of a sequence of pairs, and the pairs but those of one key.
PairSet(pairs) == {pairs[j] : j \in 1..Len(pairs)}

PairsBut(pairs, key) == {p \in PairSet(pairs) : p[1] # key}

\* C32: into_changeset yields no pair for a new overlay; after insert(k, v)
\* it yields (k, Some(v)) and after remove(k) it yields (k, None), in place of
\* the pair it yielded for k before, the pairs of the other keys being the
\* same; a get changes nothing of what it yields; and it never yields two
\* pairs for one key. So it yields one pair for each key written, with the
\* value of the last write, and none for a key that was only read.
C32_ChangesetStep ==
    LET before == into_changeset(overlays[scall'.ov])
        after == into_changeset(overlays'[scall'.ov])
    IN  /\ scall'.op = "overlayed" => after = <<>>
        /\ scall'.op = "insert_key"
           => PairSet(after) = PairsBut(before, scall'.key)
                                  \cup {<<scall'.key, scall'.value>>}
        /\ scall'.op = "remove_key"
           => PairSet(after) = PairsBut(before, scall'.key)
                                  \cup {<<scall'.key, None>>}
        /\ scall'.op = "get" => after = before
        /\ scall'.op \in {"overlayed", "insert_key", "remove_key", "get"}
           => Len(after) = Cardinality({after[j][1] : j \in 1..Len(after)})

\* C32: every step on an overlay keeps into_changeset to the last writes.
C32_IntoChangeset == [][C32_ChangesetStep]_vars

\* One key holds an inserted value and the other key was removed: two pairs,
\* the value and the removal.
C32_Witness ==
    /\ scall.op = "remove_key" /\ scall.key = 200
    /\ into_changeset(overlays[scall.ov]) = <<<<100, 2>>, <<200, None>>>>

\* C35: when the changeset of an overlay created at block p is applied at a
\* stored child c of p that has no entry, get(k, c) returns for every key what
\* the overlay's get(k) returned just before, and get(k, p) returns what it
\* returned before. Checked under SpecCommit.
C35_CommitStep ==
    (/\ scall'.op = "apply" /\ scall'.ov # 0
     /\ scall'.block_id \in DOMAIN tree.blocks
     /\ tree.blocks[scall'.block_id].block.parent_id = overlays[scall'.ov].block_id
     /\ \A k \in Keys : ~RecordedIn(fs, tree, k, scall'.block_id))
    => \A k \in Keys :
           /\ FlatState_get(fs', k, scall'.block_id, tree')
                  = Overlay_get(overlays[scall'.ov], k, fs, tree)
           /\ FlatState_get(fs', k, overlays[scall'.ov].block_id, tree')
                  = FlatState_get(fs, k, overlays[scall'.ov].block_id, tree)

\* C35: every commit of an overlay preserves the overlay's view.
C35_CommitPreservesView == [][C35_CommitStep]_vars

\* What a commit leaves of the overlay's view: a key the overlay wrote reads
\* as an error at the block of the commit.
CommitReadsFail ==
    (scall.op = "apply" /\ scall.ov # 0 /\ scall.result.ok)
    => \A k \in KeysOf(scall.changeset) :
           FlatState_get(fs, k, scall.block_id, tree) = {QErr("InvalidAncestorDepth")}

----------------------------------------------------------------------------
\* Properties of the transactional wrapper, checked under SpecTx.

\* A step in which apply was called, with the closure txcall' records.
ApplyStep == txcall'.branch # "none"

\* C1: if apply(f) returns an error, the exposed state after the call equals
\* the exposed state before the call, and the error is the one f returned on
\* the first replica.
C1_RollbackStep ==
    (ApplyStep /\ ~txcall'.result.ok)
    => /\ first' = first
       /\ txcall'.result = RunClosure(txcall'.closure, first, 1).result

\* C1: every step that is a failing apply is a rollback step.
C1_Rollback == [][C1_RollbackStep]_vars

\* Chain::import returned the query error of an insert that had already
\* appended the block to its parent's children.
C1_Witness ==
    /\ txcall.op = "import"
    /\ txcall.branch = "rollback"
    /\ txcall.result.err = "ForkTreeInsert" /\ txcall.result.insert = "Query"

\* C2: after apply(f) the exposed state is the pre-call state when apply
\* returns an error, and the state f leaves when run once to completion on the
\* pre-call state when apply returns success, the value returned being f's.
C2_AllOrNothingStep ==
    ApplyStep
    => LET r == RunClosure(txcall'.closure, first, 1)
       IN  IF txcall'.result.ok
           THEN r.result.ok /\ first' = r.data /\ txcall'.result = r.result
           ELSE first' = first

\* C2: every step that is an apply exposes all of the closure's effects or none.
C2_AllOrNothing == [][C2_AllOrNothingStep]_vars

\* An import went through and left its block and its changeset exposed.
C2_Witness ==
    /\ txcall.op = "import"
    /\ txcall.result.ok
    /\ txcall.closure.block.extrinsics # <<>>
    /\ txcall.closure.block.id \in DOMAIN first.fork_tree.blocks
    /\ 100 \in DOMAIN first.state
    /\ \E d \in DOMAIN first.state[100] :
           txcall.closure.block.id \in DOMAIN first.state[100][d]

\* C3: the two replicas are equal at construction and after every apply,
\* whichever way the call went.
C3_ReplicasEqual == first = second

\* The closure succeeded on the first replica and failed on the second.
C3_Witness ==
    /\ txcall.branch = "repair"
    /\ first = second
    /\ first.fork_tree # MemoryForkTree_new

\* The wrapper as MemoryTransactional::new leaves it around an empty fork tree
\* and an empty flat state.
FreshChainData == ChainData(MemoryForkTree_new, MemoryFlatState_new)

\* C21: on a fresh wrapper, the apply of the genesis closure (insert the
\* parentless genesis block, then apply the genesis changeset at its
\* identifier) returns success, and the exposed fork tree then holds the
\* genesis block at depth 0, every pair of the genesis changeset being recorded
\* in the exposed flat state at depth 0 under the genesis identifier.
C21_GenesisStep ==
    (txcall'.op = "genesis" /\ first = FreshChainData /\ second = FreshChainData)
    => LET b == txcall'.closure.block
           g == txcall'.closure.genesis_state
       IN  /\ txcall'.result = COk
           /\ block(first'.fork_tree, b.id) = QOk(b)
           /\ block_depth(first'.fork_tree, b.id) = QOk(0)
           /\ \A i \in 1..Len(g) :
                  /\ g[i][1] \in DOMAIN first'.state
                  /\ 0 \in DOMAIN first'.state[g[i][1]]
                  /\ b.id \in DOMAIN first'.state[g[i][1]][0]
                  /\ first'.state[g[i][1]][0][b.id] = g[i][2]

\* C21: every genesis apply on a fresh wrapper bootstraps the chain.
C21_GenesisBootstrap == [][C21_GenesisStep]_vars

\* The chain holds the genesis block and nothing else, with both keys of the
\* genesis state recorded.
C21_Witness ==
    /\ txcall.op = "genesis" /\ txcall.result.ok
    /\ DOMAIN first.fork_tree.blocks = {txcall.closure.block.id}
    /\ DOMAIN first.state = {100, 200}

\* C22: an import that fails, with an invalid seal, a block without parent, an
\* unknown parent or an error after the fork tree was touched, leaves the
\* exposed fork tree and flat state as they were before the import, and the
\* block is not stored.
C22_AtomicImportStep ==
    (txcall'.op = "import" /\ ~txcall'.result.ok)
    => /\ first'.fork_tree = first.fork_tree
       /\ first'.state = first.state
       /\ block(first'.fork_tree, txcall'.closure.block.id) = QErr("UnknownBlock")

\* C22: every failing import is without visible effect.
C22_AtomicImport == [][C22_AtomicImportStep]_vars

\* An import failed inside insert after the block had been appended to its
\* parent's children; the exposed parent does not list the block.
C22_Witness ==
    /\ txcall.op = "import" /\ ~txcall.result.ok
    /\ txcall.result.insert = "Query"
    /\ txcall.closure.block.parent_id \in DOMAIN first.fork_tree.blocks
    /\ \A i \in 1..Len(first.fork_tree.blocks[txcall.closure.block.parent_id].children) :
           first.fork_tree.blocks[txcall.closure.block.parent_id].children[i]
               # txcall.closure.block.id

\* C26: if the closure succeeds on the first replica and then fails on the
\* second, apply returns the success value of the first run, the second
\* replica becomes a copy of the first, and the exposed state is the one the
\* closure left on the first replica.
C26_RepairStep ==
    (/\ ApplyStep
     /\ RunClosure(txcall'.closure, first, 1).result.ok
     /\ ~RunClosure(txcall'.closure, second, 2).result.ok)
    => /\ txcall'.result.ok
       /\ txcall'.result = RunClosure(txcall'.closure, first, 1).result
       /\ first' = RunClosure(txcall'.closure, first, 1).data
       /\ second' = first'
       /\ second' # RunClosure(txcall'.closure, second, 2).data

\* C26: every apply whose second run fails repairs the second replica.
C26_Repair == [][C26_RepairStep]_vars

\* After a repair both replicas hold the block and the changeset the closure
\* recorded at it on the first replica.
C26_Witness ==
    /\ txcall.branch = "repair" /\ txcall.result.ok
    /\ txcall.closure.block.id \in DOMAIN second.fork_tree.blocks
    /\ 200 \in DOMAIN second.state
    /\ \E d \in DOMAIN second.state[200] :
           txcall.closure.block.id \in DOMAIN second.state[200][d]

-----------------------------------------------------------------------------
\* Broadcast delivery in the network worker.

\* The listeners of a list whose receiving end is still open, in order.
OpenListeners(n, senders) ==
    LET Open(sender) == ~is_closed(n, sender)
    IN  SelectSeq(senders, Open)

\* A step of the worker on a gossipsub message with a known source, on a topic
\* that has a listener entry.
MessageStep ==
    /\ net'.step.op = "Message"
    /\ net'.step.source # None
    /\ net'.step.topic \in DOMAIN net.broadcast_listen_senders

C38_DeliveryStep ==
    MessageStep =>
        LET topic == net'.step.topic
            senders == net.broadcast_listen_senders[topic]
            item == <<net'.step.source, AnyMessage(topic, net'.step.serialized)>>
        IN  /\ \A i \in DOMAIN senders :
                   ~is_closed(net, senders[i])
                       => net'.received[senders[i]] = Append(net.received[senders[i]], item)
            /\ net'.broadcast_listen_senders[topic] = OpenListeners(net, senders)

\* C38: when the worker receives a gossipsub message with a known source on a
\* topic with registered listeners, the message is forwarded to every
\* registered listener whose receiving end is still open, and the listeners
\* whose receiving end was closed are dropped from the topic's list.
C38_BroadcastDelivery == [][C38_DeliveryStep]_vars

\* What the code does instead: no listener ever receives a message, and after
\* a message on a topic only closed listeners are left on its list.
NothingDelivered == \A l \in Listeners : net.received[l] = <<>>

OnlyClosedKeptStep ==
    MessageStep =>
        \A i \in DOMAIN net'.broadcast_listen_senders[net'.step.topic] :
            is_closed(net, net'.broadcast_listen_senders[net'.step.topic][i])

OnlyClosedKept == [][OnlyClosedKeptStep]_vars

NextTx ==
    \/ \E b \in ChainBlocks : Import(b)
    \/ \E b \in GenesisBlocks, g \in GenesisStates : Genesis(b, g)
    \/ \E b \in SideEffectBlocks, o \in Outcomes : SideEffect(b, o)

SpecTx == Init /\ [][NextTx]_vars

====
